---- MODULE Spec2Model ----
(***************************************************************************)
(* A model of nics/moleculetools.py: the Structure class (atom labels, a   *)
(* coordinate array, the cached center and main_axis) and the numeric      *)
(* helpers its methods call.                                               *)
(*                                                                         *)
(* Numbers.  A float is modelled as an exact rational <<n, d>> in lowest   *)
(* terms with d > 0, or as NaN == <<0, 0>>.  NaN is absorbing in every     *)
(* arithmetic operation, as in IEEE arithmetic.  Rounding is not modelled: *)
(* the inputs are chosen so that every norm the program takes is rational, *)
(* and the evaluation stops with an error if a square root is not exact    *)
(* (ExactRoot).  An angle is carried as the pair <<cos, sin>> that         *)
(* np.cos and np.sin return for it.                                        *)
(***************************************************************************)
EXTENDS Integers, Sequences, FiniteSets

\* ---------------------------------------------------------------- bounds
MaxAtoms == 4

\* --------------------------------------------------------------- values
\* F applied to the values of its arguments.  Python evaluates an argument
\* once, before the call; written this way an operator does the same, and
\* does not evaluate an argument expression again at each use of it.
Let1(a, F(_)) == CHOOSE r \in {F(x) : x \in {a}} : TRUE
Let2(a, b, F(_, _)) == CHOOSE r \in {F(x, y) : x \in {a}, y \in {b}} : TRUE
Let3(a, b, c, F(_, _, _)) ==
  CHOOSE r \in {F(x, y, z) : x \in {a}, y \in {b}, z \in {c}} : TRUE

\* ------------------------------------------------------------ arithmetic
AbsInt(n) == IF n < 0 THEN -n ELSE n

RECURSIVE GCD(_, _)
GCD(a, b) == IF b = 0 THEN a ELSE GCD(b, a % b)

NaN == <<0, 0>>
IsNaN(x) == x[2] = 0

\* n/d in lowest terms, d > 0
Q(n, d) == Let1(GCD(AbsInt(n), d), LAMBDA g : <<n \div g, d \div g>>)

I(n) == <<n, 1>>
Zero == <<0, 1>>
One == <<1, 1>>

AddV(x, y) ==
  IF IsNaN(x) \/ IsNaN(y) THEN NaN
  ELSE Let1(GCD(x[2], y[2]), LAMBDA g :
         Q(x[1] * (y[2] \div g) + y[1] * (x[2] \div g), (x[2] \div g) * y[2]))

Add(x, y) == Let2(x, y, AddV)

Neg(x) == Let1(x, LAMBDA v : IF IsNaN(v) THEN NaN ELSE <<-v[1], v[2]>>)
Sub(x, y) == Add(x, Neg(y))

MulV(x, y) ==
  IF IsNaN(x) \/ IsNaN(y) THEN NaN
  ELSE IF x[1] = 0 \/ y[1] = 0 THEN Zero
  ELSE Let2(GCD(AbsInt(x[1]), y[2]), GCD(AbsInt(y[1]), x[2]), LAMBDA g1, g2 :
         <<(x[1] \div g1) * (y[1] \div g2), (x[2] \div g2) * (y[2] \div g1)>>)

Mul(x, y) == Let2(x, y, MulV)

\* x / y.  The program divides only by a norm or by a count, and then 0/0
\* is the one division by zero that occurs: it is NaN.
DivV(x, y) ==
  IF IsNaN(x) \/ IsNaN(y) \/ y[1] = 0 THEN NaN
  ELSE IF y[1] > 0 THEN MulV(x, <<y[2], y[1]>>)
  ELSE MulV(x, <<-y[2], -y[1]>>)

Div(x, y) == Let2(x, y, DivV)

AbsQ(x) == Let1(x, LAMBDA v : IF IsNaN(v) THEN NaN ELSE <<AbsInt(v[1]), v[2]>>)

RECURSIVE Bisect(_, _, _)
Bisect(lo, hi, n) ==
  IF lo >= hi THEN lo
  ELSE Let1((lo + hi + 1) \div 2, LAMBDA mid :
         IF mid * mid <= n THEN Bisect(mid, hi, n) ELSE Bisect(lo, mid - 1, n))

\* the integer r with r * r = n; an error when n is not a perfect square
ExactRoot(n) ==
  CHOOSE s \in {Bisect(0, IF n < 46340 THEN n ELSE 46340, n)} : s * s = n

Sqrt(x) ==
  Let1(x, LAMBDA v : IF IsNaN(v) THEN NaN ELSE <<ExactRoot(v[1]), ExactRoot(v[2])>>)

\* np.clip(x, -1, 1): NaN stays NaN
Clip(x) ==
  Let1(x, LAMBDA v :
    IF IsNaN(v) THEN NaN
    ELSE IF v[1] > v[2] THEN One
    ELSE IF v[1] < -v[2] THEN Neg(One)
    ELSE v)

\* ---------------------------------------------------------------- vectors
\* A 3-vector is a tuple of three numbers; the 0-d value np.mean returns for
\* an empty list is the single number NaN (a tuple of length 2).
Vec(x, y, z) == <<x, y, z>>
IsVec(v) == Len(v) = 3
NaNVec == <<NaN, NaN, NaN>>
VecHasNaN(v) == \E i \in 1..Len(v) : IsNaN(v[i])

VAdd(u, v) ==
  Let2(u, v, LAMBDA a, b : <<AddV(a[1], b[1]), AddV(a[2], b[2]), AddV(a[3], b[3])>>)
VSub(u, v) ==
  Let2(u, v, LAMBDA a, b : <<Sub(a[1], b[1]), Sub(a[2], b[2]), Sub(a[3], b[3])>>)
VScale(k, v) ==
  Let2(k, v, LAMBDA c, a : <<MulV(c, a[1]), MulV(c, a[2]), MulV(c, a[3])>>)
VDiv(v, k) ==
  Let2(v, k, LAMBDA a, c : <<DivV(a[1], c), DivV(a[2], c), DivV(a[3], c)>>)
VAbs(v) == Let1(v, LAMBDA a : <<AbsQ(a[1]), AbsQ(a[2]), AbsQ(a[3])>>)
Dot(u, v) ==
  Let2(u, v, LAMBDA a, b :
    Add(Add(MulV(a[1], b[1]), MulV(a[2], b[2])), MulV(a[3], b[3])))
Cross(u, v) ==
  Let2(u, v, LAMBDA a, b :
    <<Sub(MulV(a[2], b[3]), MulV(a[3], b[2])),
      Sub(MulV(a[3], b[1]), MulV(a[1], b[3])),
      Sub(MulV(a[1], b[2]), MulV(a[2], b[1]))>>)

\* np.linalg.norm
Norm(v) == Let1(v, LAMBDA a : Sqrt(Dot(a, a)))

unit_vector(vector) == Let1(vector, LAMBDA v : VDiv(v, Norm(v)))

\* the angle arccos(c), as the pair <<cos, sin>> of it; arccos ranges over
\* [0, pi], where the sine is the non-negative root
ArcCos(c) == Let1(c, LAMBDA x : <<x, Sqrt(Sub(One, MulV(x, x)))>>)

angle_between(u, v) == ArcCos(Clip(Dot(unit_vector(u), unit_vector(v))))

find_normal_from_points(a, b, c) ==
  Let3(a, b, c, LAMBDA p, q, r : unit_vector(Cross(VSub(q, p), VSub(r, p))))

find_normal_from_vectors(u, v) == unit_vector(Cross(u, v))

\* ----------------------------------------------------------------- arrays
\* An N x 3 array is a sequence of N rows, each a 3-vector.
Rows(m) == Len(m)

RECURSIVE SumCol(_, _, _)
SumCol(m, j, n) == IF n = 0 THEN Zero ELSE Add(SumCol(m, j, n - 1), m[n][j])

\* coords[:, j].mean(): the sum over the count, NaN for an empty column
MeanCol(m, j) == Div(SumCol(m, j, Rows(m)), I(Rows(m)))

MatHasNaN(m) == \E i \in 1..Rows(m) : VecHasNaN(m[i])

\* a 3x3 matrix is a tuple of three rows
MatVec(R, p) ==
  Let2(R, p, LAMBDA A, x : <<Dot(A[1], x), Dot(A[2], x), Dot(A[3], x)>>)

\* R, the 3x3 block rotation_matrix builds for unit direction d
Rodrigues(cos, sin, d) ==
  Let3(<<Vec(cos, Zero, Zero), Vec(Zero, cos, Zero), Vec(Zero, Zero, cos)>>,
       Let1(Sub(One, cos), LAMBDA omc :
         [i \in 1..3 |-> [j \in 1..3 |-> MulV(MulV(d[i], d[j]), omc)]]),
       Let1(VScale(sin, d), LAMBDA ds :
         <<Vec(Zero, Neg(ds[3]), ds[2]),
           Vec(ds[3], Zero, Neg(ds[1])),
           Vec(Neg(ds[2]), ds[1], Zero)>>),
       LAMBDA diag, outer, skew :
         [i \in 1..3 |-> VAdd(VAdd(diag[i], outer[i]), skew[i])])

\* The 4x4 matrix M is carried as its blocks: R == M[:3, :3] and
\* t == M[:3, 3]; its last row stays (0, 0, 0, 1).
rotation_matrix(angle, direction, point) ==
  Let3(angle, unit_vector(direction), point, LAMBDA a, d, p :
    Let1(Rodrigues(a[1], a[2], d), LAMBDA R :
      [R |-> R, t |-> VSub(p, MatVec(R, p))]))

\* each row p, made (p, 1), goes to the first three entries of M.(p, 1)
apply_4x4_matrix_to_3D_set(matrix, coords_in) ==
  Let2(matrix, coords_in, LAMBDA M, m :
    [i \in 1..Rows(m) |-> VAdd(MatVec(M.R, m[i]), VScale(One, M.t))])

\* ----------------------------------------------------- consensus axis
\* list(range(n))
Range(n) == [i \in 1..n |-> i - 1]

\* A variant: itertools.combinations_with_replacement in the place of
\* itertools.combinations, which lets a position be taken again.
combinations_with_replacement(lst) ==
  Let1(lst, LAMBDA l :
    [q \in {p \in (1..Len(l)) \X (1..Len(l)) \X (1..Len(l)) :
              p[1] <= p[2] /\ p[2] <= p[3]}
       |-> <<l[q[1]], l[q[2]], l[q[3]]>>])

\* itertools.combinations(lst, 3): one tuple per choice of three positions
\* i < j < k of the list, holding the entries at those positions
combinations(lst) ==
  Let1(lst, LAMBDA l :
    [q \in {p \in (1..Len(l)) \X (1..Len(l)) \X (1..Len(l)) :
              p[1] < p[2] /\ p[2] < p[3]}
       |-> <<l[q[1]], l[q[2]], l[q[3]]>>])

\* set(combs): the distinct tuples (list() of it is walked in any order; the
\* exact mean does not depend on the order)
unique_combs(lst) ==
  Let1(combinations(lst), LAMBDA combs : {combs[q] : q \in DOMAIN combs})

\* The loop body of Structure.find_axis for one tuple.
comb_normal(m, comb) ==
  VAbs(unit_vector(
    find_normal_from_points(m[comb[1] + 1], m[comb[2] + 1], m[comb[3] + 1])))

RECURSIVE SumNormals(_, _)
SumNormals(m, cs) ==
  IF cs = {} THEN Vec(Zero, Zero, Zero)
  ELSE Let1(CHOOSE x \in cs : TRUE, LAMBDA comb :
         VAdd(comb_normal(m, comb), SumNormals(m, cs \ {comb})))

\* np.mean(np.array(norm_list), axis=0): the sum of the list over its length;
\* for an empty list the 0-d value NaN
norm_mean(m, cs) ==
  IF cs = {} THEN NaN
  ELSE VDiv(SumNormals(m, cs), I(Cardinality(cs)))

\* Structure.find_center on the array m
FindCenter(m) == Vec(MeanCol(m, 1), MeanCol(m, 2), MeanCol(m, 3))

\* Structure.find_axis on the array m with the index list lst: ok is FALSE
\* when a row index is out of range (IndexError, main_axis not assigned)
FindAxis(m, lst) ==
  Let2(m, unique_combs(lst), LAMBDA a, cs :
    Let1(\A comb \in cs : \A i \in 1..3 : comb[i] < Rows(a), LAMBDA inrange :
      [ok |-> inrange,
       combs |-> cs,
       axis |-> IF ~inrange THEN <<>>
                ELSE Let1(norm_mean(a, cs), LAMBDA mean :
                       IF IsVec(mean) THEN unit_vector(mean) ELSE NaN)]))

\* ------------------------------------------------------------------ state
VARIABLES
  atoms,      \* self.atoms: the label sequence
  natoms,     \* self.natoms
  heap,       \* the array objects alive, by identity: 0 is the array the
              \* caller supplied (and still holds); self.coords is another
              \* one once a method has rebound it
  coords,     \* self.coords: the identity of the array it is bound to
  center,     \* self.center, <<>> while the attribute does not exist
  main_axis,  \* self.main_axis, <<>> while the attribute does not exist
  last,       \* the last call: its name and whether it returned (ok) or raised
  after_translate,  \* whether the call before the last one was a
              \* translate_to_center that returned
  old,        \* the contents of self.coords when the last call started
  given,      \* the contents of the array passed to the constructor
  axis_call   \* the last run of find_axis: its index list and the tuples
              \* whose normals it averaged

vars == <<atoms, natoms, heap, coords, center, main_axis, last, after_translate,
          old, given, axis_call>>

Returned(op) == last.op = op /\ last.ok

Unset == <<>>
NoCall == [op |-> "none", ok |-> TRUE]
NoAxisCall == [atoms |-> <<>>, combs |-> {}, ran |-> FALSE]

cur == heap[coords]
\* ----------------------------------------------------------------- inputs
\* Label sequences of every length up to MaxAtoms.
Labels == {[i \in 1..k |-> "C"] : k \in 0..MaxAtoms}

\* Point sets: planar shapes given in plane coordinates (u, v), placed by a
\* rational orthonormal frame (e1, e2) of the plane and an offset.
Shapes ==
  { <<>>,
    << <<0, 0>> >>,
    << <<0, 0>>, <<1, 0>> >>,
    << <<0, 0>>, <<1, 0>>, <<0, 1>> >>,
    << <<0, 0>>, <<1, 0>>, <<2, 0>> >>,
    << <<0, 0>>, <<1, 0>>, <<0, 1>>, <<1, 1>> >>,
    << <<0, 0>>, <<1, 0>>, <<2, 0>>, <<0, 1>> >> }

Frames ==
  { \* the xy plane: normal (0, 0, 1)
    [e1 |-> Vec(One, Zero, Zero), e2 |-> Vec(Zero, One, Zero)],
    \* tilted about x: normal (0, -3/5, 4/5)
    [e1 |-> Vec(One, Zero, Zero), e2 |-> Vec(Zero, Q(4, 5), Q(3, 5))],
    \* tilted about x the other way: normal (0, 3/5, 4/5)
    [e1 |-> Vec(One, Zero, Zero), e2 |-> Vec(Zero, Q(4, 5), Q(-3, 5))],
    \* the yz plane: normal (1, 0, 0)
    [e1 |-> Vec(Zero, One, Zero), e2 |-> Vec(Zero, Zero, One)] }

Offsets == { Vec(Zero, Zero, Zero), Vec(I(5), I(5), I(5)) }

Place(shape, f, o) ==
  [i \in 1..Len(shape) |->
     VAdd(o, VAdd(VScale(I(shape[i][1]), f.e1), VScale(I(shape[i][2]), f.e2)))]

PointSets == {Place(sh, f, o) : sh \in Shapes, f \in Frames, o \in Offsets}

\* find_axis(atoms=None) and find_axis(atoms=lst)
NoneArg == [none |-> TRUE, lst |-> <<>>]
ListArg(l) == [none |-> FALSE, lst |-> l]

\* The index lists passed where find_axis is called among the other
\* methods: an empty one, a subset out of order, one with a row index that
\* the smaller arrays do not have.
SomeLists == { <<>>, <<2, 0, 1>>, <<0, 1, 3>> }

NoRepeat(l) == \A i, j \in 1..Len(l) : l[i] = l[j] => i = j

\* Every listing of every subset of the row indices 0..n-1, in every order.
SubsetLists(n) ==
  {l \in UNION {[1..k -> 0..(n - 1)] : k \in 0..n} : NoRepeat(l)}

\* Lists that name a row twice.
RepeatLists == { <<0, 0, 1>>, <<0, 1, 0, 2>>, <<2, 1, 0, 1>> }

\* The arrays find_axis is run on with every index list.
AxisPointSets ==
  {Place(sh, f, Vec(Zero, Zero, Zero)) :
     sh \in { << <<0, 0>>, <<1, 0>>, <<0, 1>> >>,
              << <<0, 0>>, <<1, 0>>, <<0, 1>>, <<1, 1>> >> },
     f \in Frames}

\* ---------------------------------------------------------------- actions
Init ==
  /\ atoms = <<>>
  /\ natoms = 0
  /\ heap = [i \in {0} |-> <<>>]
  /\ coords = 0
  /\ center = Unset
  /\ main_axis = Unset
  /\ last = NoCall
  /\ after_translate = FALSE
  /\ old = <<>>
  /\ given = <<>>
  /\ axis_call = NoAxisCall

Constructed == last.op # "none"

\* Structure.__init__(atoms, coords): binds the two arguments and takes
\* natoms from the labels; nothing is compared.
Structure_init(a, c) ==
  /\ ~Constructed
  /\ atoms' = a
  /\ heap' = [i \in {0} |-> c]
  /\ coords' = 0
  /\ natoms' = Len(a)
  /\ last' = [op |-> "__init__", ok |-> TRUE]
  /\ after_translate' = Returned("translate_to_center")
  /\ old' = c
  /\ given' = c
  /\ UNCHANGED <<center, main_axis, axis_call>>

find_center ==
  /\ Constructed
  /\ center' = FindCenter(cur)
  /\ last' = [op |-> "find_center", ok |-> TRUE]
  /\ after_translate' = Returned("translate_to_center")
  /\ old' = cur
  /\ UNCHANGED <<atoms, natoms, heap, coords, main_axis, axis_call, given>>

find_axis(arg) ==
  \E lst \in {IF arg.none THEN Range(natoms) ELSE arg.lst} :
  \E r \in {FindAxis(cur, lst)} :
      /\ Constructed
      /\ main_axis' = IF r.ok THEN r.axis ELSE main_axis
      /\ axis_call' = [atoms |-> lst, combs |-> r.combs, ran |-> TRUE]
      /\ last' = [op |-> "find_axis", ok |-> r.ok]
      /\ after_translate' = Returned("translate_to_center")
      /\ old' = cur
      /\ UNCHANGED <<atoms, natoms, heap, coords, center, given>>

\* update_geometry on the array m, main_axis being axis0 before it: the
\* fields it leaves and whether it returned
UpdateGeometry(m, axis0) ==
  Let3(m, axis0, FindAxis(m, Range(natoms)), LAMBDA a, ax, r :
    [ok |-> r.ok,
     center |-> FindCenter(a),
     main_axis |-> IF r.ok THEN r.axis ELSE ax,
     call |-> [atoms |-> Range(natoms), combs |-> r.combs, ran |-> TRUE]])

update_geometry ==
  \E g \in {UpdateGeometry(cur, main_axis)} :
      /\ Constructed
      /\ center' = g.center
      /\ main_axis' = g.main_axis
      /\ axis_call' = g.call
      /\ last' = [op |-> "update_geometry", ok |-> g.ok]
      /\ after_translate' = Returned("translate_to_center")
      /\ old' = cur
      /\ UNCHANGED <<atoms, natoms, heap, coords, given>>

\* the identity of a newly allocated array: one not alive
NewId == IF coords = 1 THEN 2 ELSE 1

\* A variant: the new coordinates written into the array self.coords is
\* bound to (self.coords[:] = ..., or -=), no array being created.
RebindInPlace(m) ==
  /\ coords' = coords
  /\ heap' = [heap EXCEPT ![coords] = m]

\* self.coords = <new array>: the array self.coords was bound to is freed
\* unless it is the caller's
Rebind(m) ==
  /\ coords' = NewId
  /\ heap' = [i \in {0, NewId} |-> IF i = 0 THEN heap[0] ELSE m]

\* self.coords - trans_matrix, trans_matrix being natoms rows of center:
\* numpy broadcasts an N x 3 and a natoms x 3 array when the row counts are
\* equal or one of them is 1, and raises ValueError otherwise
CanBroadcast(m) == Rows(m) = natoms \/ Rows(m) = 1 \/ natoms = 1

\* A variant: the center added where it is to be subtracted.
SubtractAdding(m, c) ==
  [i \in 1..(IF Rows(m) = 1 THEN natoms ELSE Rows(m)) |->
     VAdd(m[IF Rows(m) = 1 THEN 1 ELSE i], c)]

Subtract(m, c) ==
  [i \in 1..(IF Rows(m) = 1 THEN natoms ELSE Rows(m)) |->
     VSub(m[IF Rows(m) = 1 THEN 1 ELSE i], c)]

translate_to_center ==
  \E g1 \in {UpdateGeometry(cur, main_axis)} :
      /\ Constructed
      /\ after_translate' = Returned("translate_to_center")
      /\ old' = cur
      /\ UNCHANGED <<atoms, natoms, given>>
      /\ IF ~g1.ok \/ ~CanBroadcast(cur)
         THEN /\ center' = g1.center
              /\ main_axis' = g1.main_axis
              /\ axis_call' = g1.call
              /\ last' = [op |-> "translate_to_center", ok |-> FALSE]
              /\ UNCHANGED <<heap, coords>>
         ELSE \E moved \in {Subtract(cur, g1.center)} :
              \E g2 \in {UpdateGeometry(moved, g1.main_axis)} :
              /\ Rebind(moved)
              /\ center' = g2.center
              /\ main_axis' = g2.main_axis
              /\ axis_call' = g2.call
              /\ last' = [op |-> "translate_to_center", ok |-> g2.ok]

z_axis == Vec(Zero, Zero, One)

\* the array rotate_to_z computes from m, center c and main axis ax
Rotated(m, c, ax) ==
  apply_4x4_matrix_to_3D_set(
    rotation_matrix(angle_between(ax, z_axis),
                    find_normal_from_vectors(ax, z_axis), c),
    m)

rotate_to_z ==
  \E g1 \in {UpdateGeometry(cur, main_axis)} :
      /\ Constructed
      /\ after_translate' = Returned("translate_to_center")
      /\ old' = cur
      /\ UNCHANGED <<atoms, natoms, given>>
      \* np.cross raises when main_axis is the 0-d NaN that an empty list
      \* of normals leaves
      /\ IF ~g1.ok \/ ~IsVec(g1.main_axis)
         THEN /\ center' = g1.center
              /\ main_axis' = g1.main_axis
              /\ axis_call' = g1.call
              /\ last' = [op |-> "rotate_to_z", ok |-> FALSE]
              /\ UNCHANGED <<heap, coords>>
         ELSE \E turned \in {Rotated(cur, g1.center, g1.main_axis)} :
              \E g2 \in {UpdateGeometry(turned, g1.main_axis)} :
              /\ Rebind(turned)
              /\ center' = g2.center
              /\ main_axis' = g2.main_axis
              /\ axis_call' = g2.call
              /\ last' = [op |-> "rotate_to_z", ok |-> g2.ok]

Next ==
  \/ \E a \in Labels, c \in PointSets : Structure_init(a, c)
  \/ find_center
  \/ find_axis(NoneArg)
  \/ \E l \in SomeLists : find_axis(ListArg(l))
  \/ update_geometry
  \/ translate_to_center
  \/ rotate_to_z

Spec == Init /\ [][Next]_vars

\* find_axis alone, on a few arrays, with every listing of every subset of
\* the rows and with the lists that repeat a row
NextAxis ==
  \/ \E c \in AxisPointSets : Structure_init([i \in 1..Rows(c) |-> "C"], c)
  \/ \E l \in SubsetLists(Rows(cur)) \cup RepeatLists : find_axis(ListArg(l))

SpecAxis == Init /\ [][NextAxis]_vars
\* ----------------------------------------------------------------- claims
Origin == Vec(Zero, Zero, Zero)

Triples(n) == {p \in (1..n) \X (1..n) \X (1..n) : p[1] < p[2] /\ p[2] < p[3]}

Collinear(a, b, c) == Cross(VSub(b, a), VSub(c, a)) = Origin

\* at least 3 points, all finite, three of them not on a line
HasTriangle(m) ==
  /\ ~MatHasNaN(m)
  /\ \E p \in Triples(Rows(m)) : ~Collinear(m[p[1]], m[p[2]], m[p[3]])

\* at least 3 points, all finite, no three of them on a line
NoCollinearTriple(m) ==
  /\ Rows(m) >= 3
  /\ ~MatHasNaN(m)
  /\ \A p \in Triples(Rows(m)) : ~Collinear(m[p[1]], m[p[2]], m[p[3]])

\* all the points in one plane
Coplanar(m) ==
  /\ ~MatHasNaN(m)
  /\ \A p \in Triples(Rows(m)) : \A l \in 1..Rows(m) :
       Dot(Cross(VSub(m[p[2]], m[p[1]]), VSub(m[p[3]], m[p[1]])),
           VSub(m[l], m[p[1]])) = Zero

\* a value of main_axis that is NaN, as a number or in a component
AxisIsNaN(ax) == IF Len(ax) = 2 THEN IsNaN(ax) ELSE VecHasNaN(ax)

\* a Structure as the data model has it: one label per row
WellFormed(m) == natoms = Rows(m)

\* main_axis as the update_geometry that opens the last call computed it
AxisBefore == FindAxis(old, Range(natoms))

RanAxis == last.op \in {"find_axis", "update_geometry", "translate_to_center", "rotate_to_z"}

\* C1: after rotate_to_z on a planar point set of at least 3 non-collinear
\* points, in whatever orientation, the recomputed main_axis is (0, 0, 1).
\* Stated here for the inputs on which nothing else can go wrong: one label
\* per row, no three points on a line, and a main axis that was not
\* (0, 0, 1) already (the case of C2).
C1_AxisIsZAfterRotate ==
  (/\ Returned("rotate_to_z")
   /\ WellFormed(old)
   /\ Coplanar(old)
   /\ NoCollinearTriple(old)
   /\ AxisBefore.axis # z_axis)
  => main_axis = z_axis

\* C2: rotate_to_z on a Structure whose main_axis is (0, 0, 1) already
\* applies the identity: it returns, coords are unchanged, and coords,
\* center and main_axis hold no NaN.
C2_IdentityWhenAligned ==
  (/\ last.op = "rotate_to_z"
   /\ WellFormed(old)
   /\ AxisBefore.ok
   /\ AxisBefore.axis = z_axis)
  => /\ last.ok
     /\ cur = old
     /\ ~MatHasNaN(cur)
     /\ ~VecHasNaN(center)
     /\ ~AxisIsNaN(main_axis)

\* C3: when the last completed call is translate_to_center or rotate_to_z,
\* center is the mean of the current coords and main_axis is the consensus
\* axis over all the row indices of the current coords.
C3_CachesFresh ==
  (Returned("translate_to_center") \/ Returned("rotate_to_z"))
  => /\ center = FindCenter(cur)
     /\ FindAxis(cur, Range(Rows(cur))).ok
     /\ main_axis = FindAxis(cur, Range(Rows(cur))).axis

\* C4: no method changes the labels, natoms or the number of coordinate
\* rows (so that row i stays the row of label i).
C4_LabelsAndRowsKept ==
  [][Constructed =>
       /\ atoms' = atoms
       /\ natoms' = natoms
       /\ Rows(heap'[coords']) = Rows(cur)]_vars

\* C5: on a Structure with at least 3 non-collinear points,
\* translate_to_center leaves the centroid of coords, and center, at
\* (0, 0, 0); a second consecutive translate_to_center leaves coords as
\* they were.
C5_TranslateCenters ==
  (Returned("translate_to_center") /\ HasTriangle(old))
  => /\ FindCenter(cur) = Origin
     /\ center = Origin
     /\ (after_translate => cur = old)

\* a second consecutive translate_to_center has returned, on a point set
\* with a triangle in it that the first one had to move
C5_Witness ==
  /\ Returned("translate_to_center")
  /\ after_translate
  /\ HasTriangle(old)
  /\ cur # given

\* C6: a Structure whose number of labels differs from its number of
\* coordinate rows never exists (the constructor raises instead).
C6_LengthsMatch == Constructed => natoms = Rows(cur)

\* C7: find_axis over fewer than 3 indices (fewer than 3 atoms, or a subset
\* with fewer than 3 entries, the empty one included) raises, and main_axis
\* is not left NaN.
C7_TooFewRaises ==
  (RanAxis /\ Len(axis_call.atoms) < 3)
  => /\ ~last.ok
     /\ ~AxisIsNaN(main_axis)

Members(comb) == {comb[1], comb[2], comb[3]}

\* C9: for an index list that lists a subset of the rows (in any order),
\* the normals find_axis averages are one per 3-element subset of the
\* listed indices: no tuple repeats an index, no two tuples are the same
\* subset, and every 3-element subset has its tuple.
C9_EachTripleOnce ==
  (axis_call.ran /\ NoRepeat(axis_call.atoms))
  => /\ \A comb \in axis_call.combs : Cardinality(Members(comb)) = 3
     /\ \A c1, c2 \in axis_call.combs : Members(c1) = Members(c2) => c1 = c2
     /\ {Members(comb) : comb \in axis_call.combs}
          = {S \in SUBSET {axis_call.atoms[i] : i \in 1..Len(axis_call.atoms)} :
               Cardinality(S) = 3}

\* find_axis has returned for four rows listed out of order
C9_Witness ==
  /\ Returned("find_axis")
  /\ axis_call.atoms = <<3, 1, 0, 2>>
  /\ Cardinality(axis_call.combs) = 4
  /\ ~AxisIsNaN(main_axis)

\* C10: whenever rotate_to_z returns, the centroid of coords is where it
\* was before the call.  Stated for the inputs on which nothing else can go
\* wrong: one label per row, finite coordinates, no three points on a line.
C10_CentroidKept ==
  (/\ Returned("rotate_to_z")
   /\ WellFormed(old)
   /\ NoCollinearTriple(old))
  => FindCenter(cur) = FindCenter(old)
====
